---- MODULE Spec2Model ----
(***************************************************************************)
(* The CI check-run popover (CICheckRunPopover), its donut-chart path      *)
(* generator (donutSVG, scale) and the check-run log panel                 *)
(* (CICheckRunLogs) of the desktop client.                                 *)
(*                                                                         *)
(* Strings are sequences of one-character strings, so that trimming,       *)
(* lower-casing, number formatting and concatenation are computed.         *)
(* A nullable value is a record with a tag.                                *)
(***************************************************************************)
EXTENDS Integers, Sequences, FiniteSets, TLC

VARIABLES
  lifecycle,               \* "constructed", "mounted" or "unmounted"
  prNumber,                \* props.prNumber
  checkRuns,               \* state.checkRuns
  checkRunSummary,         \* state.checkRunSummary
  loadingActionLogs,       \* state.loadingActionLogs
  loadingActionWorkflows,  \* state.loadingActionWorkflows
  statusSubscription,      \* 0 for null, else the id of the IDisposable held
  disposals,               \* dispatcher side: disposals[id] = times subscription id was disposed
  lastCheck,               \* the argument of the most recent onStatus call
  dataArrived,             \* history: some onStatus call so far had a non-null check
  shownPopup,              \* the dispatcher.showPopup call made by the last step, if any
  donutValuesMap,          \* donutSVG's argument: a Map as a sequence of entries, in insertion order
  donutResult,             \* what donutSVG returned
  logsProps,               \* CICheckRunLogs props
  logsRendered             \* what CICheckRunLogs.render returned

popoverVars == <<lifecycle, prNumber, checkRuns, checkRunSummary, loadingActionLogs,
                 loadingActionWorkflows, statusSubscription, disposals, lastCheck, dataArrived,
                 shownPopup>>
donutVars == <<donutValuesMap, donutResult>>
logsVars == <<logsProps, logsRendered>>
vars == <<popoverVars, donutVars, logsVars>>

(***************************************************************************)
(* Bounds                                                                  *)
(***************************************************************************)
MaxChecks == 3
MaxCount == 2
MaxStrLen == 2

(***************************************************************************)
(* Strings                                                                 *)
(***************************************************************************)
UpperCaseLetters == <<"A", "B", "C", "D", "E", "F", "G", "H", "I", "J", "K", "L", "M", "N", "O", "P", "Q", "R", "S", "T", "U", "V", "W", "X", "Y", "Z">>
LowerCaseLetters == <<"a", "b", "c", "d", "e", "f", "g", "h", "i", "j", "k", "l", "m", "n", "o", "p", "q", "r", "s", "t", "u", "v", "w", "x", "y", "z">>
DecimalDigits == <<"0", "1", "2", "3", "4", "5", "6", "7", "8", "9">>

UpperToLower ==
  [c \in {UpperCaseLetters[i] : i \in 1..Len(UpperCaseLetters)} |->
     LowerCaseLetters[CHOOSE i \in 1..Len(UpperCaseLetters) : UpperCaseLetters[i] = c]]

LowerChar(c) == IF c \in DOMAIN UpperToLower THEN UpperToLower[c] ELSE c

toLocaleLowerCase(s) == [i \in 1..Len(s) |-> LowerChar(s[i])]

RECURSIVE NumberToString(_)
NumberToString(n) ==
  IF n < 10 THEN <<DecimalDigits[n + 1]>>
  ELSE NumberToString(n \div 10) \o <<DecimalDigits[(n % 10) + 1]>>

IsWhiteSpace(c) == c = " "

RECURSIVE trimStart(_)
trimStart(s) ==
  IF Len(s) > 0 /\ IsWhiteSpace(s[1]) THEN trimStart(Tail(s)) ELSE s

RECURSIVE trimEnd(_)
trimEnd(s) ==
  IF Len(s) > 0 /\ IsWhiteSpace(s[Len(s)]) THEN trimEnd(SubSeq(s, 1, Len(s) - 1)) ELSE s

trim(s) == trimEnd(trimStart(s))

RECURSIVE join(_, _)
join(strs, sep) ==
  IF Len(strs) = 0 THEN <<>>
  ELSE IF Len(strs) = 1 THEN strs[1]
  ELSE strs[1] \o sep \o join(Tail(strs), sep)

RECURSIVE SeqsUpTo(_, _)
SeqsUpTo(S, n) ==
  IF n = 0 THEN {<<>>}
  ELSE LET shorter == SeqsUpTo(S, n - 1)
       IN shorter \cup {Append(s, x) : s \in shorter, x \in S}

(***************************************************************************)
(* Check runs and combined checks                                          *)
(***************************************************************************)
\* The APICheckConclusion values the model draws check runs from; "null" is a run with
\* no conclusion yet. The operators below also handle "cancelled", "action_required",
\* "timed_out", "skipped" and "stale".
Conclusions == {"null", "success", "failure", "neutral"}

IRefCheck == [conclusion : Conclusions]

NullCheck == [tag |-> "null", checks |-> <<>>]
CombinedCheck(checks) == [tag |-> "check", checks |-> checks]
NoCheckYet == [tag |-> "none", checks |-> <<>>]

\* What the dispatcher can hand to onStatus: null or a combined check.
Statuses == {NullCheck} \cup {CombinedCheck(cs) : cs \in SeqsUpTo(IRefCheck, MaxChecks)}

PRNumbers == {7, 4210}

getCheckRunConclusionAdjective(conclusion) ==
  CASE conclusion = "null" -> <<"I", "n", " ", "p", "r", "o", "g", "r", "e", "s", "s">>
    [] conclusion = "action_required" -> <<"A", "c", "t", "i", "o", "n", " ", "r", "e", "q", "u", "i", "r", "e", "d">>
    [] conclusion = "cancelled" -> <<"C", "a", "n", "c", "e", "l", "e", "d">>
    [] conclusion = "timed_out" -> <<"T", "i", "m", "e", "d", " ", "o", "u", "t">>
    [] conclusion = "failure" -> <<"F", "a", "i", "l", "e", "d">>
    [] conclusion = "neutral" -> <<"N", "e", "u", "t", "r", "a", "l">>
    [] conclusion = "success" -> <<"S", "u", "c", "c", "e", "s", "s", "f", "u", "l">>
    [] conclusion = "skipped" -> <<"S", "k", "i", "p", "p", "e", "d">>
    [] conclusion = "stale" -> <<"M", "a", "r", "k", "e", "d", " ", "a", "s", " ", "s", "t", "a", "l", "e">>

(***************************************************************************)
(* CICheckRunPopover                                                       *)
(***************************************************************************)
getCommitRef(n) == <<"r", "e", "f", "s", "/", "p", "u", "l", "l", "/">> \o NumberToString(n) \o <<"/", "h", "e", "a", "d">>

\* Map<string, number> as a sequence of [key, value] entries in insertion order.
MapHas(m, k) == \E i \in 1..Len(m) : m[i].key = k
MapGet(m, k) == m[CHOOSE i \in 1..Len(m) : m[i].key = k].value
MapSet(m, k, v) ==
  IF MapHas(m, k)
  THEN [i \in 1..Len(m) |-> IF m[i].key = k THEN [key |-> k, value |-> v] ELSE m[i]]
  ELSE Append(m, [key |-> k, value |-> v])

RECURSIVE conclusionMapOf(_, _)
conclusionMapOf(checks, m) ==
  IF Len(checks) = 0 THEN m
  ELSE LET adj == toLocaleLowerCase(getCheckRunConclusionAdjective(checks[1].conclusion))
       IN conclusionMapOf(Tail(checks),
                          MapSet(m, adj, (IF MapHas(m, adj) THEN MapGet(m, adj) ELSE 0) + 1))

getCombinedCheckSummary_AlwaysPlural(combinedCheck) ==
  IF combinedCheck.tag = "null" \/ Len(combinedCheck.checks) = 0 THEN <<>>
  ELSE
    LET conclusionMap == conclusionMapOf(combinedCheck.checks, <<>>)
        summaryArray == [i \in 1..Len(conclusionMap) |->
                           [count |-> conclusionMap[i].value, conclusion |-> conclusionMap[i].key]]
        output == [i \in 1..Len(summaryArray) |->
                     NumberToString(summaryArray[i].count) \o <<" ">> \o summaryArray[i].conclusion]
    IN IF Len(summaryArray) > 1
       THEN join(SubSeq(output, 1, Len(output) - 1), <<",", " ">>) \o <<",", " ", "a", "n", "d", " ">>
              \o output[Len(output)] \o <<" ", "c", "h", "e", "c", "k", "s">>
       ELSE NumberToString(summaryArray[1].count) \o <<" ">> \o summaryArray[1].conclusion
              \o <<" ">> \o <<"c", "h", "e", "c", "k", "s">>

getCombinedCheckSummary(combinedCheck) ==
  IF combinedCheck.tag = "null" \/ Len(combinedCheck.checks) = 0 THEN <<>>
  ELSE
    LET conclusionMap == conclusionMapOf(combinedCheck.checks, <<>>)
        summaryArray == [i \in 1..Len(conclusionMap) |->
                           [count |-> conclusionMap[i].value, conclusion |-> conclusionMap[i].key]]
        output == [i \in 1..Len(summaryArray) |->
                     NumberToString(summaryArray[i].count) \o <<" ">> \o summaryArray[i].conclusion]
    IN IF Len(summaryArray) > 1
       THEN join(SubSeq(output, 1, Len(output) - 1), <<",", " ">>) \o <<",", " ", "a", "n", "d", " ">>
              \o output[Len(output)] \o <<" ", "c", "h", "e", "c", "k", "s">>
       ELSE LET pluralize == IF summaryArray[1].count > 1 THEN <<"c", "h", "e", "c", "k", "s">> ELSE <<"c", "h", "e", "c", "k">>
            IN NumberToString(summaryArray[1].count) \o <<" ">> \o summaryArray[1].conclusion
                 \o <<" ">> \o pluralize

\* The dispatcher's side of the subscription: a new subscription starts undisposed,
\* and disposing one counts the call.
subscribeToCommitStatus(d) == Append(d, 0)
dispose(d, id) == [d EXCEPT ![id] = @ + 1]
LiveSubscriptions == {id \in 1..Len(disposals) : disposals[id] = 0}

\* unsubscribe and subscribe act on the pair (this.statusSubscription, dispatcher subscriptions).
unsubscribe_NoDispose(s) ==
  IF s.statusSubscription # 0
  THEN [statusSubscription |-> 0, disposals |-> s.disposals]
  ELSE s

unsubscribe_KeepReference(s) ==
  IF s.statusSubscription # 0
  THEN [statusSubscription |-> s.statusSubscription,
        disposals |-> dispose(s.disposals, s.statusSubscription)]
  ELSE s

unsubscribe(s) ==
  IF s.statusSubscription # 0
  THEN [statusSubscription |-> 0, disposals |-> dispose(s.disposals, s.statusSubscription)]
  ELSE s

subscribe(s) ==
  LET u == unsubscribe(s)
  IN [statusSubscription |-> Len(u.disposals) + 1,
      disposals |-> subscribeToCommitStatus(u.disposals)]

onStatus_KeepsLoading(check) ==
  LET runs == IF check.tag # "null" THEN check.checks ELSE <<>>
  IN /\ checkRuns' = runs
     /\ checkRunSummary' = getCombinedCheckSummary(check)
     /\ loadingActionWorkflows' = (check.tag = "null")
     /\ loadingActionLogs' = TRUE
     /\ lastCheck' = check
     /\ dataArrived' = (dataArrived \/ check.tag # "null")

onStatus_KeepsOldRuns(check) ==
  LET runs == IF check.tag # "null" THEN check.checks ELSE checkRuns
  IN /\ checkRuns' = runs
     /\ checkRunSummary' = getCombinedCheckSummary(check)
     /\ loadingActionWorkflows' = (check.tag = "null")
     /\ loadingActionLogs' = (check.tag = "null")
     /\ lastCheck' = check
     /\ dataArrived' = (dataArrived \/ check.tag # "null")

onStatus(check) ==
  LET runs == IF check.tag # "null" THEN check.checks ELSE <<>>
  IN /\ checkRuns' = runs
     /\ checkRunSummary' = getCombinedCheckSummary(check)
     /\ loadingActionWorkflows' = (check.tag = "null")
     /\ loadingActionLogs' = (check.tag = "null")
     /\ lastCheck' = check
     /\ dataArrived' = (dataArrived \/ check.tag # "null")

NoPopup == [tag |-> "none"]

rerunChecks ==
  [tag |-> "popup",
   type |-> "CICheckRunRerun",
   checkRuns |-> checkRuns,
   prRef |-> getCommitRef(prNumber)]

renderRerunButton_IgnoresEmpty == [disabled |-> loadingActionWorkflows]

renderRerunButton == [disabled |-> (Len(checkRuns) = 0 \/ loadingActionWorkflows)]

renderCheckRunLoadings == [kind |-> "loading-check-runs", title |-> "Stand By"]

renderCompletenessIndicator_NullCountsAsFailure ==
  IF Len(checkRuns) = 0 THEN "spin"
  ELSE
    LET allSucccess == ~ \E i \in 1..Len(checkRuns) : checkRuns[i].conclusion # "success"
        allFailure == ~ \E i \in 1..Len(checkRuns) :
                          checkRuns[i].conclusion \notin
                              {"null", "failure", "cancelled", "action_required", "timed_out"}
    IN IF allSucccess THEN "completeness-indicator-success"
       ELSE IF allFailure THEN "completeness-indicator-error"
       ELSE "donut-chart"

\* The className of the indicator rendered; "donut-chart" is the branch that calls donutSVG.
renderCompletenessIndicator ==
  IF Len(checkRuns) = 0 THEN "spin"
  ELSE
    LET allSucccess == ~ \E i \in 1..Len(checkRuns) : checkRuns[i].conclusion # "success"
        allFailure == ~ \E i \in 1..Len(checkRuns) :
                          \/ checkRuns[i].conclusion = "null"
                          \/ checkRuns[i].conclusion \notin
                               {"failure", "cancelled", "action_required", "timed_out"}
    IN IF allSucccess THEN "completeness-indicator-success"
       ELSE IF allFailure THEN "completeness-indicator-error"
       ELSE "donut-chart"

render ==
  [indicator |-> renderCompletenessIndicator,
   summary |-> checkRunSummary,
   rerun |-> renderRerunButton,
   body |-> IF ~loadingActionLogs
            THEN [kind |-> "ci-check-run-list", title |-> "",
                  checkRuns |-> checkRuns,
                  loadingActionLogs |-> loadingActionLogs,
                  loadingActionWorkflows |-> loadingActionWorkflows]
            ELSE renderCheckRunLoadings]

\* Values the donut and log-panel variables hold while the popover runs.
IdleDonut ==
  /\ donutValuesMap = <<>>
  /\ donutResult = [tag |-> "none"]
IdleLogs ==
  /\ logsProps = [tag |-> "none"]
  /\ logsRendered = [tag |-> "none"]
IdlePopover ==
  /\ lifecycle = "absent"
  /\ prNumber = 0
  /\ checkRuns = <<>>
  /\ checkRunSummary = <<>>
  /\ loadingActionLogs = TRUE
  /\ loadingActionWorkflows = TRUE
  /\ statusSubscription = 0
  /\ disposals = <<>>
  /\ lastCheck = NoCheckYet
  /\ dataArrived = FALSE
  /\ shownPopup = NoPopup

\* constructor
Init ==
  /\ lifecycle = "constructed"
  /\ prNumber \in PRNumbers
  /\ checkRuns = <<>>
  /\ checkRunSummary = <<>>
  /\ loadingActionLogs = TRUE
  /\ loadingActionWorkflows = TRUE
  /\ statusSubscription = 0
  /\ disposals = <<>>
  /\ lastCheck = NoCheckYet
  /\ dataArrived = FALSE
  /\ shownPopup = NoPopup
  /\ IdleDonut
  /\ IdleLogs

componentDidMount ==
  /\ lifecycle = "constructed"
  /\ \E combinedCheck \in Statuses : onStatus(combinedCheck)
  /\ LET s == subscribe([statusSubscription |-> statusSubscription, disposals |-> disposals])
     IN /\ statusSubscription' = s.statusSubscription
        /\ disposals' = s.disposals
  /\ lifecycle' = "mounted"
  /\ shownPopup' = NoPopup
  /\ UNCHANGED <<prNumber, donutVars, logsVars>>

componentWillUnmount ==
  /\ lifecycle = "mounted"
  /\ LET s == unsubscribe([statusSubscription |-> statusSubscription, disposals |-> disposals])
     IN /\ statusSubscription' = s.statusSubscription
        /\ disposals' = s.disposals
  /\ lifecycle' = "unmounted"
  /\ shownPopup' = NoPopup
  /\ UNCHANGED <<prNumber, checkRuns, checkRunSummary, loadingActionLogs,
                 loadingActionWorkflows, lastCheck, dataArrived, donutVars, logsVars>>

\* The dispatcher pushes a status: every live subscription's callback (this.onStatus) runs.
DispatcherPush ==
  \E check \in Statuses :
    IF LiveSubscriptions # {}
    THEN /\ onStatus(check)
         /\ shownPopup' = NoPopup
         /\ UNCHANGED <<lifecycle, prNumber, statusSubscription, disposals, donutVars, logsVars>>
    ELSE UNCHANGED vars

\* A click on the 'Re-run checks' button; a disabled button delivers no click.
RerunClick ==
  /\ lifecycle = "mounted"
  /\ ~render.rerun.disabled
  /\ shownPopup' = rerunChecks
  /\ UNCHANGED <<lifecycle, prNumber, checkRuns, checkRunSummary, loadingActionLogs,
                 loadingActionWorkflows, statusSubscription, disposals, lastCheck,
                 dataArrived, donutVars, logsVars>>

Next == componentDidMount \/ DispatcherPush \/ RerunClick \/ componentWillUnmount

Spec == Init /\ [][Next]_vars

(***************************************************************************)
(* donutSVG and scale                                                      *)
(*                                                                         *)
(* A path is the sequence of the tokens that d.join(' ') joins. Numbers    *)
(* are held in hundredths (cx - 0.01 is cx * 100 - 1). The pair of         *)
(* coordinates scale() returns is one token: the point at `radius` from    *)
(* (cxy, cxy) at the angle value / sum of a full turn, measured clockwise  *)
(* from twelve o'clock, with the quotient value / sum in lowest terms.     *)
(***************************************************************************)
DefaultOuterRadius == 15
DefaultInnerRadius == 9

Cmd(c) == [cmd |-> c]
Num(n) == [num |-> n * 100]
Hundredths(h) == [num |-> h]

RECURSIVE GCD(_, _)
GCD(a, b) == IF b = 0 THEN a ELSE GCD(b, a % b)

Quotient(value, sum) ==
  LET g == GCD(value, sum) IN [num |-> value \div g, den |-> sum \div g]

scale(value, radius, cxy, sum) ==
  [pt |-> [radius |-> radius * 100, cxy |-> cxy * 100, turn |-> Quotient(value, sum)]]

RECURSIVE SumValues(_)
SumValues(entries) ==
  IF Len(entries) = 0 THEN 0 ELSE entries[1].value + SumValues(Tail(entries))

\* portion === 1, with portion = value / sum
portionIsOne_Never(value, sum) == FALSE

portionIsOne(value, sum) == value = sum

\* portion > 0.5 ? 1 : 0
largeArcFlag_AtHalf(value, sum) == IF 2 * value >= sum THEN 1 ELSE 0

largeArcFlag(value, sum) == IF 2 * value > sum THEN 1 ELSE 0

RECURSIVE donutPaths(_, _, _, _, _, _)
donutPaths(entries, cumulative, sum, outerRadius, innerRadius, cx) ==
  IF Len(entries) = 0 THEN <<>>
  ELSE
    LET name == entries[1].key
        value == entries[1].value
        cy == cx
    IN IF value = 0
       THEN donutPaths(Tail(entries), cumulative, sum, outerRadius, innerRadius, cx)
       ELSE IF portionIsOne(value, sum)
       THEN
         LET x2 == Hundredths(cx * 100 - 1)
             y1 == Num(cy - outerRadius)
             y2 == Num(cy - innerRadius)
             d == <<Cmd("M"), Num(cx), y1,
                    Cmd("A"), Num(outerRadius), Num(outerRadius), Num(0), Num(1), Num(1), x2, y1,
                    Cmd("L"), x2, y2,
                    Cmd("A"), Num(innerRadius), Num(innerRadius), Num(0), Num(1), Num(0),
                    Num(cx), y2>>
         IN <<[name |-> name, path |-> d]>>
              \o donutPaths(Tail(entries), cumulative, sum, outerRadius, innerRadius, cx)
       ELSE
         LET cumulative_plus_value == cumulative + value
             large == largeArcFlag(value, sum)
             d == <<Cmd("M"), scale(cumulative, outerRadius, cx, sum),
                    Cmd("A"), Num(outerRadius), Num(outerRadius), Num(0), Num(large), Num(1),
                    scale(cumulative_plus_value, outerRadius, cx, sum),
                    Cmd("L"), scale(cumulative_plus_value, innerRadius, cx, sum),
                    Cmd("A"), Num(innerRadius), Num(innerRadius), Num(0), Num(large), Num(0),
                    scale(cumulative, innerRadius, cx, sum)>>
         IN <<[name |-> name, path |-> d]>>
              \o donutPaths(Tail(entries), cumulative + value, sum,
                            outerRadius, innerRadius, cx)

\* An empty map makes reduce() without an initial value throw.
donutSVG(map, outerRadius, innerRadius) ==
  IF Len(map) = 0 THEN [tag |-> "TypeError"]
  ELSE
    LET diameter == outerRadius * 2
        sum == SumValues(map)
        cx == diameter \div 2
    IN [tag |-> "ok",
        paths |-> donutPaths(map, 0, sum, outerRadius, innerRadius, cx),
        height |-> diameter,
        width |-> diameter,
        className |-> "donut-chart"]

DonutNames == {"success", "failure", "in_progress"}

\* Maps from category to count: entries with distinct keys, in insertion order.
CountMaps ==
  {m \in SeqsUpTo([key : DonutNames, value : 0..MaxCount], Cardinality(DonutNames)) :
     \A i, j \in 1..Len(m) : i # j => m[i].key # m[j].key}

NotCalled == [tag |-> "none"]

InitDonut ==
  /\ donutValuesMap \in CountMaps
  /\ donutResult = NotCalled
  /\ IdlePopover
  /\ IdleLogs

CallDonutSVG ==
  /\ donutResult = NotCalled
  /\ donutResult' = donutSVG(donutValuesMap, DefaultOuterRadius, DefaultInnerRadius)
  /\ UNCHANGED <<donutValuesMap, popoverVars, logsVars>>

NextDonut == CallDonutSVG

SpecDonut == InitDonut /\ [][NextDonut]_vars

(***************************************************************************)
(* CICheckRunLogs                                                          *)
(***************************************************************************)
Null == [tag |-> "null", s |-> <<>>]
Undefined == [tag |-> "undefined", s |-> <<>>]
Str(s) == [tag |-> "string", s |-> s]

Strings == SeqsUpTo({" ", "x"}, MaxStrLen)

\* IRefCheckOutput: the Default variant carries text (string | null); the Actions
\* variant carries steps and no text.
DefaultOutputs ==
  [type : {"Default"},
   title : {Null, Str(<<"A">>), Str(<<"B">>)},
   summary : {Null, Undefined} \cup {Str(s) : s \in Strings},
   text : {Null} \cup {Str(s) : s \in Strings}]
ActionsOutputs ==
  [type : {"Actions"},
   title : {Null, Str(<<"A">>), Str(<<"B">>)},
   summary : {Null, Undefined} \cup {Str(s) : s \in Strings},
   text : {Undefined}]

LogsProps ==
  [checkRun : [name : {<<"a">>},
               actionsWorkflowRunId : {[tag |-> "undefined"], [tag |-> "number"]},
               output : DefaultOutputs \cup ActionsOutputs],
   loadingActionLogs : BOOLEAN,
   loadingActionWorkflows : BOOLEAN]

NullElement == [el |-> "null"]
SandboxedMarkdown(markdown) == [el |-> "SandboxedMarkdown", markdown |-> markdown]

hasActionsWorkflowLogs == logsProps.checkRun.actionsWorkflowRunId.tag # "undefined"

isNoOutputText_NoTrim(output) ==
  /\ ~hasActionsWorkflowLogs
  /\ output.type = "Default"
  /\ (output.text.tag = "null" \/ output.text.s = <<>>)

isNoOutputText(output) ==
  /\ ~hasActionsWorkflowLogs
  /\ output.type = "Default"
  /\ (output.text.tag = "null" \/ trim(output.text.s) = <<>>)

isNoAdditionalInfoToDisplay(output) ==
  /\ isNoOutputText(output)
  /\ \/ output.summary.tag = "undefined"
     \/ output.summary.tag = "null"
     \/ trim(output.summary.s) = <<>>

\* Null when there is no markdown, else the markdown string.
getNonActionsOutputMD(output) ==
  LET mainOutput == IF output.type # "Actions" /\ output.text.tag # "null"
                    THEN trim(output.text.s) ELSE <<>>
      summaryOutput == IF /\ output.summary.tag # "null"
                          /\ output.summary.tag # "undefined"
                          /\ trim(output.summary.s) # <<>>
                       THEN output.summary.s ELSE <<>>
      combinedOutput == summaryOutput \o mainOutput
  IN IF combinedOutput = <<>> THEN Null ELSE Str(combinedOutput)

renderNonActionsLogOutput(output) ==
  LET markdown == getNonActionsOutputMD(output)
  IN IF output.type = "Actions" \/ markdown.tag = "null"
     THEN NullElement
     ELSE SandboxedMarkdown(markdown.s)

renderMetaOutput(output, checkRunName) ==
  IF hasActionsWorkflowLogs THEN NullElement
  ELSE
    LET title == output.title
        summary == output.summary
        displayTitle == /\ title.tag # "null"
                        /\ trim(title.s) # <<>>
                        /\ toLocaleLowerCase(trim(title.s))
                             # toLocaleLowerCase(trim(checkRunName))
        cleanSummary == IF /\ summary.tag # "null"
                           /\ summary.tag # "undefined"
                           /\ trim(summary.s) # <<>>
                        THEN trim(summary.s) ELSE <<>>
        renderSummary == cleanSummary # <<>> /\ output.type = "Actions"
    IN [el |-> "meta-output",
        h4 |-> IF displayTitle THEN title ELSE Null,
        markdown |-> IF renderSummary THEN SandboxedMarkdown(cleanSummary) ELSE NullElement]

renderEmptyLogOutput ==
  [el |-> "no-logs-to-display", text |-> "No additional information to display."]

renderLoadingLogs == [el |-> "no-logs-to-display", text |-> "Loading..."]

CICheckRunLogs_render ==
  LET output == logsProps.checkRun.output
      name == logsProps.checkRun.name
  IN IF logsProps.loadingActionWorkflows THEN renderLoadingLogs
     ELSE
       LET logsOutput ==
             IF hasActionsWorkflowLogs
             THEN [el |-> "CICheckRunActionLogs", output |-> output,
                   loadingLogs |-> logsProps.loadingActionLogs]
             ELSE renderNonActionsLogOutput(output)
       IN [el |-> "ci-check-list-item-logs",
           actions |-> hasActionsWorkflowLogs,
           info |-> IF isNoAdditionalInfoToDisplay(output)
                    THEN renderEmptyLogOutput
                    ELSE renderMetaOutput(output, name),
           logsOutput |-> logsOutput]

NotRendered == [tag |-> "none"]

InitLogs ==
  /\ logsProps \in LogsProps
  /\ logsRendered = NotRendered
  /\ IdlePopover
  /\ IdleDonut

RenderLogs ==
  /\ logsRendered = NotRendered
  /\ logsRendered' = CICheckRunLogs_render
  /\ UNCHANGED <<logsProps, popoverVars, donutVars>>

NextLogs == RenderLogs

SpecLogs == InitLogs /\ [][NextLogs]_vars

(***************************************************************************)
(* Properties                                                              *)
(***************************************************************************)
componentState == <<checkRuns, checkRunSummary, loadingActionLogs, loadingActionWorkflows>>

\* C1: once componentWillUnmount has run, the subscription has been disposed and
\* statusSubscription is null, and no status the dispatcher pushes afterwards changes
\* checkRuns, checkRunSummary, loadingActionLogs or loadingActionWorkflows.
C1_UnsubscribedAfterUnmount ==
  /\ [](lifecycle = "unmounted" =>
          /\ statusSubscription = 0
          /\ LiveSubscriptions = {}
          /\ Len(disposals) = 1
          /\ disposals[1] >= 1)
  /\ [][lifecycle = "unmounted" => UNCHANGED componentState]_vars

C1_Witness ==
  /\ lifecycle = "unmounted"
  /\ Len(checkRuns) >= 2
  /\ disposals = <<1>>

\* C2: at most one subscription is live; statusSubscription is non-null exactly when a
\* live subscription exists, and then it is that one; no subscription is disposed twice,
\* and after unmount every subscription created has been disposed exactly once.
C2_SingleLiveSubscription ==
  /\ Cardinality(LiveSubscriptions) <= 1
  /\ (statusSubscription # 0) <=> (LiveSubscriptions # {})
  /\ statusSubscription # 0 => LiveSubscriptions = {statusSubscription}
  /\ \A id \in 1..Len(disposals) : disposals[id] <= 1
  /\ lifecycle = "mounted" => Len(disposals) = 1
  /\ lifecycle = "unmounted" => \A id \in 1..Len(disposals) : disposals[id] = 1

C2_Witness ==
  /\ lifecycle = "mounted"
  /\ statusSubscription = 1
  /\ LiveSubscriptions = {1}
  /\ loadingActionWorkflows

\* C3: the popover starts loading with no check runs, and after onStatus is applied with
\* a non-null combined check both loading flags are false and checkRuns is that check's
\* checks, in order.
C3_LoadingFlagsFlip ==
  /\ lifecycle = "constructed" =>
       loadingActionLogs /\ loadingActionWorkflows /\ checkRuns = <<>>
  /\ lastCheck.tag = "check" =>
       /\ ~loadingActionLogs
       /\ ~loadingActionWorkflows
       /\ checkRuns = lastCheck.checks

C3_Witness ==
  /\ lifecycle = "mounted"
  /\ lastCheck.tag = "check"
  /\ Len(lastCheck.checks) >= 2
  /\ lastCheck.checks[1] # lastCheck.checks[2]
  /\ ~loadingActionLogs

ExpectedPrRef ==
  IF prNumber = 7 THEN <<"r", "e", "f", "s", "/", "p", "u", "l", "l", "/", "7", "/", "h", "e", "a", "d">>
  ELSE IF prNumber = 4210 THEN <<"r", "e", "f", "s", "/", "p", "u", "l", "l", "/", "4", "2", "1", "0", "/", "h", "e", "a", "d">>
  ELSE <<>>

\* C7: the 'Re-run checks' button is disabled exactly when checkRuns is empty or
\* loadingActionWorkflows is true, and a click on the enabled button shows the
\* CICheckRunRerun popup with a non-empty checkRuns list equal to the checks of the most
\* recently applied status and with prRef 'refs/pull/<prNumber>/head'.
C7_RerunOnlyWithCheckRuns ==
  /\ render.rerun.disabled <=> (checkRuns = <<>> \/ loadingActionWorkflows)
  /\ shownPopup # NoPopup =>
       /\ shownPopup.type = "CICheckRunRerun"
       /\ shownPopup.checkRuns # <<>>
       /\ lastCheck.tag = "check"
       /\ shownPopup.checkRuns = lastCheck.checks
       /\ shownPopup.prRef = ExpectedPrRef

C7_Witness ==
  /\ shownPopup # NoPopup
  /\ Len(shownPopup.checkRuns) >= 2
  /\ prNumber = 4210

AllSuccess == \A i \in 1..Len(checkRuns) : checkRuns[i].conclusion = "success"
AllFailed ==
  \A i \in 1..Len(checkRuns) :
    checkRuns[i].conclusion \in {"failure", "cancelled", "action_required", "timed_out"}

\* C8: renderCompletenessIndicator picks the spinner iff checkRuns is empty, the success
\* icon iff it is non-empty and all Success, the error icon iff it is non-empty, not all
\* Success and every conclusion is Failure, Canceled, ActionRequired or TimedOut, and the
\* donut chart in all remaining cases, so never for an empty list.
C8_CompletenessIndicator ==
  LET indicator == render.indicator
      nonEmpty == Len(checkRuns) > 0
  IN /\ indicator \in {"spin", "completeness-indicator-success",
                       "completeness-indicator-error", "donut-chart"}
     /\ indicator = "spin" <=> ~nonEmpty
     /\ indicator = "completeness-indicator-success" <=> (nonEmpty /\ AllSuccess)
     /\ indicator = "completeness-indicator-error" <=>
          (nonEmpty /\ ~AllSuccess /\ AllFailed)
     /\ indicator = "donut-chart" <=> (nonEmpty /\ ~AllSuccess /\ ~AllFailed)

C8_Witness ==
  /\ lifecycle = "mounted"
  /\ render.indicator = "donut-chart"
  /\ \E i \in 1..Len(checkRuns) : checkRuns[i].conclusion = "null"
  /\ \E i \in 1..Len(checkRuns) : checkRuns[i].conclusion = "failure"
  /\ \A i \in 1..Len(checkRuns) : checkRuns[i].conclusion \in {"null", "failure"}

\* C9: loadingActionLogs equals loadingActionWorkflows; while they are true checkRuns is
\* empty and checkRunSummary is ''; the check run list is rendered exactly when not
\* loading and the 'Stand By' placeholder exactly when loading; and a null status,
\* also one delivered after data has arrived, leaves the popover loading.
C9_LoadingStateConsistent ==
  /\ loadingActionLogs = loadingActionWorkflows
  /\ loadingActionLogs => (checkRuns = <<>> /\ checkRunSummary = <<>>)
  /\ render.body.kind = "ci-check-run-list" <=> ~loadingActionLogs
  /\ render.body.title = "Stand By" <=> loadingActionLogs
  /\ render.body.kind = "ci-check-run-list" =>
       (render.body.checkRuns = checkRuns /\ ~render.body.loadingActionWorkflows)
  /\ lastCheck.tag = "null" => (loadingActionLogs /\ loadingActionWorkflows)

C9_Witness ==
  /\ lifecycle = "mounted"
  /\ dataArrived
  /\ lastCheck.tag = "null"
  /\ loadingActionLogs
  /\ render.body.title = "Stand By"

ExpectedAdjective(conclusion) ==
  CASE conclusion = "null" -> <<"i", "n", " ", "p", "r", "o", "g", "r", "e", "s", "s">>
    [] conclusion = "action_required" -> <<"a", "c", "t", "i", "o", "n", " ", "r", "e", "q", "u", "i", "r", "e", "d">>
    [] conclusion = "cancelled" -> <<"c", "a", "n", "c", "e", "l", "e", "d">>
    [] conclusion = "timed_out" -> <<"t", "i", "m", "e", "d", " ", "o", "u", "t">>
    [] conclusion = "failure" -> <<"f", "a", "i", "l", "e", "d">>
    [] conclusion = "neutral" -> <<"n", "e", "u", "t", "r", "a", "l">>
    [] conclusion = "success" -> <<"s", "u", "c", "c", "e", "s", "s", "f", "u", "l">>
    [] conclusion = "skipped" -> <<"s", "k", "i", "p", "p", "e", "d">>
    [] conclusion = "stale" -> <<"m", "a", "r", "k", "e", "d", " ", "a", "s", " ", "s", "t", "a", "l", "e">>

RECURSIVE ExpectedList(_, _)
ExpectedList(items, m) ==
  IF m = Len(items) THEN <<"a", "n", "d", " ">> \o items[m]
  ELSE items[m] \o <<",", " ">> \o ExpectedList(items, m + 1)

\* The summary the claim describes for a list of check runs.
ExpectedSummary(runs) ==
  LET n == Len(runs)
      adj(i) == ExpectedAdjective(runs[i].conclusion)
      firsts == {i \in 1..n : \A j \in 1..(i - 1) : adj(j) # adj(i)}
      k == Cardinality(firsts)
      nth(m) == CHOOSE i \in firsts : Cardinality({j \in firsts : j < i}) = m - 1
      count(i) == Cardinality({j \in 1..n : adj(j) = adj(i)})
      items == [m \in 1..k |-> <<DecimalDigits[count(nth(m)) + 1]>> \o <<" ">> \o adj(nth(m))]
  IN IF n = 0 THEN <<>>
     ELSE IF k = 1 THEN items[1] \o (IF count(nth(1)) = 1 THEN <<" ", "c", "h", "e", "c", "k">> ELSE <<" ", "c", "h", "e", "c", "k", "s">>)
     ELSE ExpectedList(items, 1) \o <<" ", "c", "h", "e", "c", "k", "s">>

\* C10: after every status delivery checkRunSummary is '' exactly when checkRuns is
\* empty, and otherwise lists each distinct lower-cased conclusion adjective once, in
\* order of first occurrence, with its count, ending in 'check' when there is one
\* adjective with count 1 and in 'checks' otherwise.
C10_SummaryMatchesCheckRuns ==
  /\ checkRunSummary = <<>> <=> checkRuns = <<>>
  /\ checkRunSummary = ExpectedSummary(checkRuns)

C10_Witness ==
  /\ lifecycle = "mounted"
  /\ Len(checkRuns) = 3
  /\ checkRuns[1].conclusion = "failure"
  /\ checkRuns[2].conclusion = "success"
  /\ checkRuns[3].conclusion = "failure"
  /\ checkRunSummary = <<"2", " ", "f", "a", "i", "l", "e", "d", ",", " ", "a", "n", "d", " ", "1", " ", "s", "u", "c", "c", "e", "s", "s", "f", "u", "l", " ", "c", "h", "e", "c", "k", "s">>

NonZeroEntries(map) == SelectSeq(map, LAMBDA e : e.value # 0)

FullCirclePath ==
  <<[cmd |-> "M"], [num |-> 1500], [num |-> 0],
    [cmd |-> "A"], [num |-> 1500], [num |-> 1500], [num |-> 0], [num |-> 100], [num |-> 100],
    [num |-> 1499], [num |-> 0],
    [cmd |-> "L"], [num |-> 1499], [num |-> 600],
    [cmd |-> "A"], [num |-> 900], [num |-> 900], [num |-> 0], [num |-> 100], [num |-> 0],
    [num |-> 1500], [num |-> 600]>>

\* C4: when exactly one category has a non-zero count, donutSVG returns exactly one
\* path, named after that category, and it is the full-circle fallback path, with no
\* point computed by scale(); zero-count categories contribute no path.
C4_SingleCategoryFullCircle ==
  (donutResult # NotCalled /\ Len(NonZeroEntries(donutValuesMap)) = 1) =>
    /\ donutResult.tag = "ok"
    /\ donutResult.paths =
         <<[name |-> NonZeroEntries(donutValuesMap)[1].key, path |-> FullCirclePath]>>

C4_Witness ==
  /\ donutResult # NotCalled
  /\ Len(donutValuesMap) = 3
  /\ Len(NonZeroEntries(donutValuesMap)) = 1
  /\ donutValuesMap[2].value = 2
  /\ Len(donutResult.paths) = 1

RECURSIVE SumBefore(_, _)
SumBefore(entries, i) == IF i = 1 THEN 0 ELSE entries[i - 1].value + SumBefore(entries, i - 1)

\* The token is a scale() point at `radius` (in hundredths) whose angle is v / sum of a turn.
IsPointAt(token, radius, v, sum) ==
  /\ DOMAIN token = {"pt"}
  /\ token.pt.radius = radius
  /\ token.pt.cxy = 1500
  /\ token.pt.turn.den > 0
  /\ token.pt.turn.num * sum = v * token.pt.turn.den

\* C6: with at least two non-zero categories donutSVG returns one path per non-zero
\* category in map order; the i-th spans from the total of the preceding non-zero counts
\* to that total plus its own count, so each arc starts where the previous one ended, the
\* first at 0 and the last ending at the sum; the large-arc flag is 1 exactly when twice
\* the count exceeds the sum; the outer arc's sweep flag is 1 and the inner arc's is 0.
C6_ArcsProportionalToCounts ==
  LET nz == NonZeroEntries(donutValuesMap)
      sum == SumBefore(nz, Len(nz) + 1)
      paths == donutResult.paths
  IN (donutResult # NotCalled /\ Len(nz) >= 2) =>
       /\ donutResult.tag = "ok"
       /\ Len(paths) = Len(nz)
       /\ \A i \in 1..Len(nz) :
            LET d == paths[i].path
                from == SumBefore(nz, i)
                to == from + nz[i].value
                large == IF 2 * nz[i].value > sum THEN 100 ELSE 0
            IN /\ paths[i].name = nz[i].key
               /\ Len(d) = 18
               /\ d[1] = [cmd |-> "M"] /\ d[3] = [cmd |-> "A"]
               /\ d[10] = [cmd |-> "L"] /\ d[12] = [cmd |-> "A"]
               /\ IsPointAt(d[2], 1500, from, sum)
               /\ IsPointAt(d[9], 1500, to, sum)
               /\ IsPointAt(d[11], 900, to, sum)
               /\ IsPointAt(d[18], 900, from, sum)
               /\ d[4] = [num |-> 1500] /\ d[5] = [num |-> 1500] /\ d[6] = [num |-> 0]
               /\ d[13] = [num |-> 900] /\ d[14] = [num |-> 900] /\ d[15] = [num |-> 0]
               /\ d[7] = [num |-> large] /\ d[16] = [num |-> large]
               /\ d[8] = [num |-> 100]
               /\ d[17] = [num |-> 0]
               /\ i > 1 => d[2] = paths[i - 1].path[9]
               /\ i = 1 => d[2].pt.turn.num = 0
               /\ i = Len(nz) => d[9].pt.turn.num = d[9].pt.turn.den

C6_Witness ==
  /\ donutResult # NotCalled
  /\ Len(donutValuesMap) = 3
  /\ donutValuesMap[1].value = 2
  /\ donutValuesMap[2].value = 0
  /\ donutValuesMap[3].value = 1
  /\ Len(donutResult.paths) = 2
  /\ donutResult.paths[1].path[7] = [num |-> 100]
  /\ donutResult.paths[2].path[7] = [num |-> 0]

IsBlank(s) == \A i \in 1..Len(s) : s[i] = " "

\* C5: for a check run with no actionsWorkflowRunId whose output text is null or blank
\* and whose output summary is null, undefined or blank, the panel, when not loading
\* workflows, renders no SandboxedMarkdown and shows the 'No additional information to
\* display.' notice.
C5_AbsentOutputShowsNotice ==
  LET output == logsProps.checkRun.output
      noText == output.text.tag = "null" \/ (output.text.tag = "string" /\ IsBlank(output.text.s))
      noSummary == output.summary.tag \in {"null", "undefined"} \/ IsBlank(output.summary.s)
  IN (/\ logsRendered # NotRendered
      /\ logsProps.checkRun.actionsWorkflowRunId = [tag |-> "undefined"]
      /\ noText
      /\ noSummary
      /\ ~logsProps.loadingActionWorkflows) =>
       /\ logsRendered.el = "ci-check-list-item-logs"
       /\ logsRendered.info =
            [el |-> "no-logs-to-display", text |-> "No additional information to display."]
       /\ logsRendered.logsOutput = [el |-> "null"]

C5_Witness ==
  /\ logsRendered # NotRendered
  /\ logsProps.checkRun.actionsWorkflowRunId = [tag |-> "undefined"]
  /\ ~logsProps.loadingActionWorkflows
  /\ logsProps.checkRun.output.text = [tag |-> "string", s |-> <<" ", " ">>]
  /\ logsProps.checkRun.output.summary = [tag |-> "string", s |-> <<" ">>]
  /\ logsRendered.info.text = "No additional information to display."

====
